---------------------------- MODULE Spec2Model ----------------------------
(***************************************************************************)
(* Model of main.py: the Kiwify webhook handler (kiwify_webhook), its      *)
(* helpers token_ok, pick_email and normalize_event, the two tables        *)
(* subscriptions and webhook_events it writes, and GET /status (status).   *)
(*                                                                         *)
(* Specifications:                                                         *)
(*   Spec         webhook requests, interleaved;                           *)
(*   SpecStatus   the same together with calls of status;                  *)
(*   SpecToken    one request, over the credentials token_ok reads;        *)
(*   SpecPayload  one request, over the payloads pick_email and            *)
(*                normalize_event read.                                    *)
(*                                                                         *)
(* Python strings whose content the code inspects (strip, lower, replace,  *)
(* "@" in s, startswith) are sequences of one-character strings, so that   *)
(* these conversions are computed and not assumed.  Dictionary keys and    *)
(* header names, which the code only looks up, are TLA+ strings.           *)
(*                                                                         *)
(* A decoded JSON value is a record [k |-> kind, v |-> content] with kind  *)
(* one of "dict", "list", "str", "int", "bool", "null".                    *)
(*                                                                         *)
(* Each request is one process.  Its steps are the points at which the     *)
(* handler talks to the database or to the clock; worker processes of the  *)
(* service interleave at these points.  (Inside one event loop the handler *)
(* does not yield after line 184, so requests overlap only across worker   *)
(* processes.)                                                             *)
(*                                                                         *)
(* The database is PostgreSQL as psycopg2 drives it: a statement runs in   *)
(* the connection's transaction and shows at commit; an upsert waits while *)
(* another open transaction has written the row of the same key; a call    *)
(* that raises applies nothing.  Any call to the database may raise.       *)
(* datetime.utcnow() returns a larger value on every call.                 *)
(***************************************************************************)
EXTENDS Integers, Sequences, FiniteSets, TLC

(***************************************************************************)
(* Bounds.                                                                 *)
(***************************************************************************)
NumReqs == 2

Reqs == 1..NumReqs

(***************************************************************************)
(* Python string primitives.                                               *)
(***************************************************************************)
UpperChars ==
    <<"A", "B", "C", "D", "E", "F", "G", "H", "I", "J", "K", "L", "M",
      "N", "O", "P", "Q", "R", "S", "T", "U", "V", "W", "X", "Y", "Z">>

LowerChars ==
    <<"a", "b", "c", "d", "e", "f", "g", "h", "i", "j", "k", "l", "m",
      "n", "o", "p", "q", "r", "s", "t", "u", "v", "w", "x", "y", "z">>

WhitespaceChars == {" ", "\t", "\n", "\r"}

SetMin(S) == CHOOSE x \in S : \A y \in S : x <= y

SetMax(S) == CHOOSE x \in S : \A y \in S : y <= x

\* str.lower() on one character
LowerChar(c) ==
    IF \E i \in 1..Len(UpperChars) : UpperChars[i] = c
    THEN LowerChars[CHOOSE i \in 1..Len(UpperChars) : UpperChars[i] = c]
    ELSE c

\* str.lower()
Lower(s) == [i \in 1..Len(s) |-> LowerChar(s[i])]

\* str.strip(): drops leading and trailing whitespace only
Strip(s) ==
    LET keep == {i \in 1..Len(s) : s[i] \notin WhitespaceChars}
    IN  IF keep = {} THEN <<>> ELSE SubSeq(s, SetMin(keep), SetMax(keep))

\* str.replace(a, b) for single characters a and b
Replace(s, a, b) == [i \in 1..Len(s) |-> IF s[i] = a THEN b ELSE s[i]]

\* c in s
Contains(s, c) == \E i \in 1..Len(s) : s[i] = c

\* s.startswith(p)
StartsWith(s, p) == Len(s) >= Len(p) /\ SubSeq(s, 1, Len(p)) = p

\* s.split(c, 1)[1]: what follows the first occurrence of c
AfterFirst(s, c) ==
    LET at == {i \in 1..Len(s) : s[i] = c}
    IN  SubSeq(s, SetMin(at) + 1, Len(s))

(***************************************************************************)
(* Decoded JSON values and the Python operations the code applies to them. *)
(***************************************************************************)
JDict(f) == [k |-> "dict", v |-> f]

JList(q) == [k |-> "list", v |-> q]

JStr(s) == [k |-> "str", v |-> s]

JInt(n) == [k |-> "int", v |-> n]

JBool(b) == [k |-> "bool", v |-> b]

None == [k |-> "null", v |-> 0]

EmptyDict == JDict([x \in {} |-> None])

\* isinstance(x, dict), isinstance(x, str)
IsDict(x) == x.k = "dict"

IsStr(x) == x.k = "str"

\* d.get(key): None when the key is absent
DictGet(d, key) == IF key \in DOMAIN d.v THEN d.v[key] ELSE None

\* truth value of x, as used by `or` and `if not`
Truthy(x) ==
    CASE x.k = "null" -> FALSE
      [] x.k = "bool" -> x.v
      [] x.k = "int"  -> x.v # 0
      [] x.k = "str"  -> Len(x.v) > 0
      [] x.k = "list" -> Len(x.v) > 0
      [] x.k = "dict" -> DOMAIN x.v # {}

DigitChars == <<"0", "1", "2", "3", "4", "5", "6", "7", "8", "9">>

RECURSIVE IntStr(_)
IntStr(n) ==
    IF n < 10 THEN <<DigitChars[n + 1]>>
    ELSE IntStr(n \div 10) \o <<DigitChars[(n % 10) + 1]>>

\* repr(x): a str is quoted, a list is its items' reprs joined by ", ".
\* The repr of a dict is modelled for the empty dict only; no payload drawn
\* below puts a non-empty dict where the code calls str() on it.
RECURSIVE PyRepr(_)
RECURSIVE ReprItems(_)
ReprItems(q) ==
    IF Len(q) = 0 THEN <<>>
    ELSE IF Len(q) = 1 THEN PyRepr(q[1])
    ELSE PyRepr(q[1]) \o <<",", " ">> \o ReprItems(Tail(q))

PyRepr(x) ==
    CASE x.k = "str"  -> <<"'">> \o x.v \o <<"'">>
      [] x.k = "int"  -> IntStr(x.v)
      [] x.k = "bool" -> IF x.v THEN <<"T", "r", "u", "e">>
                                ELSE <<"F", "a", "l", "s", "e">>
      [] x.k = "null" -> <<"N", "o", "n", "e">>
      [] x.k = "list" -> <<"[">> \o ReprItems(x.v) \o <<"]">>
      [] x.k = "dict" -> <<"{", "}">>

\* str(x): a str is itself, everything else is its repr
PyStr(x) == IF x.k = "str" THEN x.v ELSE PyRepr(x)

(***************************************************************************)
(* pick_email and normalize_event.                                         *)
(***************************************************************************)
paths ==
    << <<"customer", "email">>,
       <<"Customer", "email">>,
       <<"buyer", "email">>,
       <<"order", "customer", "email">>,
       <<"order", "customer_email">>,
       <<"customer_email">>,
       <<"customerEmail">>,
       <<"email">>,
       <<"data", "customer", "email">>,
       <<"data", "Customer", "email">> >>

\* the inner loop of pick_email: follow path from ref; a node that is not a
\* dict turns ref into None and the loop goes on
RECURSIVE Walk(_, _)
Walk(ref, path) ==
    IF Len(path) = 0 THEN ref
    ELSE Walk(IF IsDict(ref) THEN DictGet(ref, Head(path)) ELSE None,
              Tail(path))

\* the test of line 151
IsEmailStr(ref) == IsStr(ref) /\ Contains(ref.v, "@")

\* pick_email returning the last path that matches
pick_emailLastMatch(data) ==
    LET hits == {i \in 1..Len(paths) : IsEmailStr(Walk(data, paths[i]))}
    IN  IF hits = {} THEN <<>>
        ELSE Lower(Strip(Walk(data, paths[SetMax(hits)]).v))

\* pick_email without strip() and lower()
pick_emailAsFound(data) ==
    LET hits == {i \in 1..Len(paths) : IsEmailStr(Walk(data, paths[i]))}
    IN  IF hits = {} THEN <<>>
        ELSE Walk(data, paths[SetMin(hits)]).v

pick_email(data) ==
    LET hits == {i \in 1..Len(paths) : IsEmailStr(Walk(data, paths[i]))}
    IN  IF hits = {} THEN <<>>
        ELSE Lower(Strip(Walk(data, paths[SetMin(hits)]).v))

event_fields ==
    <<"event", "type", "evento", "Event", "name", "webhook_event_type",
      "order_status">>

\* normalize_event without replace(" ", "_")
normalize_eventNoReplace(data) ==
    LET set == {i \in 1..Len(event_fields) :
                   Truthy(DictGet(data, event_fields[i]))}
        ev  == IF set = {} THEN JStr(<<>>)
               ELSE DictGet(data, event_fields[SetMin(set)])
    IN  Lower(Strip(PyStr(ev)))

normalize_event(data) ==
    LET set == {i \in 1..Len(event_fields) :
                   Truthy(DictGet(data, event_fields[i]))}
        ev  == IF set = {} THEN JStr(<<>>)
               ELSE DictGet(data, event_fields[SetMin(set)])
    IN  Replace(Lower(Strip(PyStr(ev))), " ", "_")

(***************************************************************************)
(* Event classification (lines 213-241).                                   *)
(***************************************************************************)
\* active_events with "refund", which is in inactive_events, added
active_eventsWithRefund ==
    { <<"c", "o", "m", "p", "r", "a", "_", "a", "p", "r", "o", "v", "a", "d", "a">>,
      <<"p", "u", "r", "c", "h", "a", "s", "e", "_", "a", "p", "p", "r", "o", "v", "e", "d">>,
      <<"a", "p", "p", "r", "o", "v", "e", "d">>,
      <<"s", "u", "b", "s", "c", "r", "i", "p", "t", "i", "o", "n", "_", "r", "e", "n", "e", "w", "e", "d">>,
      <<"a", "s", "s", "i", "n", "a", "t", "u", "r", "a", "_", "r", "e", "n", "o", "v", "a", "d", "a">>,
      <<"o", "r", "d", "e", "r", "_", "a", "p", "p", "r", "o", "v", "e", "d">>,
      <<"p", "a", "i", "d">>,
      <<"r", "e", "f", "u", "n", "d">> }

active_events ==
    { <<"c", "o", "m", "p", "r", "a", "_", "a", "p", "r", "o", "v", "a", "d", "a">>,
      <<"p", "u", "r", "c", "h", "a", "s", "e", "_", "a", "p", "p", "r", "o", "v", "e", "d">>,
      <<"a", "p", "p", "r", "o", "v", "e", "d">>,
      <<"s", "u", "b", "s", "c", "r", "i", "p", "t", "i", "o", "n", "_", "r", "e", "n", "e", "w", "e", "d">>,
      <<"a", "s", "s", "i", "n", "a", "t", "u", "r", "a", "_", "r", "e", "n", "o", "v", "a", "d", "a">>,
      <<"o", "r", "d", "e", "r", "_", "a", "p", "p", "r", "o", "v", "e", "d">>,
      <<"p", "a", "i", "d">> }

inactive_events ==
    { <<"s", "u", "b", "s", "c", "r", "i", "p", "t", "i", "o", "n", "_", "c", "a", "n", "c", "e", "l", "e", "d">>,
      <<"a", "s", "s", "i", "n", "a", "t", "u", "r", "a", "_", "c", "a", "n", "c", "e", "l", "a", "d", "a">>,
      <<"s", "u", "b", "s", "c", "r", "i", "p", "t", "i", "o", "n", "_", "l", "a", "t", "e">>,
      <<"c", "h", "a", "r", "g", "e", "b", "a", "c", "k">>,
      <<"r", "e", "f", "u", "n", "d">>,
      <<"r", "e", "e", "m", "b", "o", "l", "s", "o">>,
      <<"c", "a", "n", "c", "e", "l", "e", "d">>,
      <<"r", "e", "f", "u", "n", "d", "e", "d">> }

\* the if / elif / else of lines 234-241
Classify(event) ==
    IF event \in active_events THEN "activate"
    ELSE IF event \in inactive_events THEN "deactivate"
    ELSE "ignore"

(***************************************************************************)
(* State.                                                                  *)
(***************************************************************************)
VARIABLES
    WEBHOOK_TOKEN,          \* line 12: the configured secret, stripped
    clock,                  \* the value the next datetime.utcnow() returns
    subscriptions,          \* table subscriptions: a set of rows
    webhook_events,         \* table webhook_events: a set of rows
    webhook_events_id_seq,  \* the SERIAL sequence behind webhook_events.id
    locked,                 \* emails whose row an open transaction has written
    sub_commits,            \* committed upserts, in commit order
    pc,                     \* where each request is in kiwify_webhook
    request,                \* the request a handler call was given and has
                            \* yet to read (it reads it in lines 180-184 only)
    data, event, email,     \* locals of kiwify_webhook (lines 184-193)
    new_active,             \* local of kiwify_webhook (line 234)
    now,                    \* the datetime.utcnow() argument of line 252
    audit_id,               \* the id the audit INSERT drew for each request
    conn,                   \* whether the request holds an open connection
    resp,                   \* the response each request ended with
    raised,                 \* the exception that ended the request, if any
    status_pc,              \* where the caller of GET /status is in status
    status_arg,             \* the email argument status was called with
    status_email,           \* local email of status (line 72)
    status_conn,            \* whether status holds an open connection
    status_resp             \* the response of the latest call of status

dbvars == <<subscriptions, webhook_events, webhook_events_id_seq, locked,
            sub_commits>>

locals == <<data, event, email, new_active, now, audit_id>>

statusvars == <<status_pc, status_arg, status_email, status_conn,
                status_resp>>

vars == <<WEBHOOK_TOKEN, clock, dbvars, pc, request, locals, conn, resp,
          raised, statusvars>>

(***************************************************************************)
(* token_ok (lines 97-121).  A request is                                  *)
(*   [query_signature |-> the values of ?signature=, in order,             *)
(*    headers |-> header name -> value, body |-> the body].                *)
(***************************************************************************)
\* request.headers.get(name, "") or ""
HeaderGet(rq, name) ==
    IF name \in DOMAIN rq.headers THEN rq.headers[name] ELSE <<>>

bearer_prefix == <<"b", "e", "a", "r", "e", "r", " ">>

\* token_ok comparing without regard to letter case
token_okCaseFolded(rq) ==
    LET qs_sigs  == {Lower(Strip(rq.query_signature[i])) :
                        i \in DOMAIN rq.query_signature}
        hdr_sig  == Strip(HeaderGet(rq, "X-Webhook-Token"))
        hdr_auth == Strip(HeaderGet(rq, "Authorization"))
    IN  \/ Len(WEBHOOK_TOKEN) = 0
        \/ Lower(WEBHOOK_TOKEN) \in qs_sigs
        \/ Lower(hdr_sig) = Lower(WEBHOOK_TOKEN)
        \/ /\ StartsWith(Lower(hdr_auth), bearer_prefix)
           /\ Lower(Strip(AfterFirst(hdr_auth, " "))) = Lower(WEBHOOK_TOKEN)

token_ok(rq) ==
    LET qs_sigs  == {Strip(rq.query_signature[i]) :
                        i \in {j \in 1..Len(rq.query_signature) :
                                  Len(rq.query_signature[j]) > 0}}
        hdr_sig  == Strip(HeaderGet(rq, "X-Webhook-Token"))
        hdr_auth == Strip(HeaderGet(rq, "Authorization"))
    IN  IF Len(WEBHOOK_TOKEN) = 0 THEN TRUE
        ELSE IF qs_sigs # {} /\ WEBHOOK_TOKEN \in qs_sigs THEN TRUE
        ELSE IF hdr_sig = WEBHOOK_TOKEN THEN TRUE
        ELSE IF StartsWith(Lower(hdr_auth), bearer_prefix)
                /\ Strip(AfterFirst(hdr_auth, " ")) = WEBHOOK_TOKEN THEN TRUE
        ELSE FALSE

(***************************************************************************)
(* The requests drawn.                                                     *)
(***************************************************************************)
Secret == <<"s", "3">>

NoHeaders == [x \in {} |-> <<>>]

\* a header that matches Secret once stripped
GoodCredentials ==
    [query_signature |-> <<>>,
     headers |-> [x \in {"X-Webhook-Token"} |-> <<" ", "s", "3">>]]

\* a signature that differs from Secret in letter case only
BadCredentials ==
    [query_signature |-> << <<"S", "3">> >>, headers |-> NoHeaders]

\* a body that is not JSON
Malformed == [k |-> "malformed", v |-> 0]

EmailA == <<"a", "@", "x">>

\* a recognized event and no email
PaidNoEmail == JDict([event |-> JStr(<<"p", "a", "i", "d">>)])

\* an Activate event for EmailA, both fields in need of normalization
PaidA ==
    JDict([event |-> JStr(<<"P", "a", "i", "d", " ">>),
           Customer |-> JDict([email |-> JStr(<<" ", "A", "@", "x">>)])])

\* a Deactivate event for EmailA
RefundA ==
    JDict([order_status |-> JStr(<<"r", "e", "f", "u", "n", "d">>),
           email |-> JStr(EmailA)])

\* an event of neither set for EmailA
TrialA ==
    JDict([event |-> JStr(<<"t", "r", "i", "a", "l">>),
           customer |-> JDict([email |-> JStr(EmailA)])])

Bodies ==
    { Malformed,
      None, JBool(TRUE), JInt(7), JStr(EmailA), JList(<<JStr(EmailA)>>),
      PaidNoEmail, PaidA, RefundA, TrialA }

WithBody(c, b) ==
    [query_signature |-> c.query_signature, headers |-> c.headers, body |-> b]

Requests ==
    {WithBody(GoodCredentials, b) : b \in Bodies}
        \cup {WithBody(BadCredentials, b) : b \in {Malformed, PaidA}}

NoRequest == [query_signature |-> <<>>, headers |-> NoHeaders, body |-> None]

(***************************************************************************)
(* Responses.                                                              *)
(***************************************************************************)
NoResponse ==
    [status |-> 0, received |-> FALSE, note |-> "", email |-> <<>>,
     active |-> None, event |-> <<>>]

\* raise HTTPException(status_code, detail), and the 500 the framework
\* answers when any other exception leaves the handler
ErrorResponse(code, detail) ==
    [status |-> code, received |-> FALSE, note |-> detail, email |-> <<>>,
     active |-> None, event |-> <<>>]

\* the three return statements (lines 210, 241, 259-264)
Ack(note, em, act, ev) ==
    [status |-> 200, received |-> TRUE, note |-> note, email |-> em,
     active |-> act, event |-> ev]

NoException == [type |-> "", line |-> 0]

\* an exception of the given type raised at the given source line
Exception(type, line) == [type |-> type, line |-> line]

\* the responses of status: the two return statements (lines 82, 84-89)
\* and the 500 the framework answers when an exception leaves it
NoStatusResponse ==
    [status |-> 0, email |-> <<>>, active |-> FALSE, found |-> FALSE,
     updated_at |-> <<>>]

StatusNotFound(em) ==
    [status |-> 200, email |-> em, active |-> FALSE, found |-> FALSE,
     updated_at |-> <<>>]

StatusFound(row) ==
    [status |-> 200, email |-> row.email, active |-> row.active,
     found |-> TRUE, updated_at |-> PyStr(JInt(row.updated_at))]

StatusError ==
    [status |-> 500, email |-> <<>>, active |-> FALSE, found |-> FALSE,
     updated_at |-> <<>>]

\* the handler's call ends: response rsp, after exception ex (NoException
\* when it returned); its locals are gone with its frame
Finish(r, rsp, ex) ==
    /\ pc' = [pc EXCEPT ![r] = "done"]
    /\ resp' = [resp EXCEPT ![r] = rsp]
    /\ raised' = [raised EXCEPT ![r] = ex]
    /\ data' = [data EXCEPT ![r] = None]
    /\ event' = [event EXCEPT ![r] = <<>>]
    /\ email' = [email EXCEPT ![r] = <<>>]
    /\ new_active' = [new_active EXCEPT ![r] = None]
    /\ now' = [now EXCEPT ![r] = 0]
    /\ audit_id' = [audit_id EXCEPT ![r] = 0]

\* a psycopg2 error (or get_conn's RuntimeError) leaves the handler
StoreFailure(r, line) ==
    Finish(r, ErrorResponse(500, "Internal Server Error"),
           Exception("StoreUnavailable", line))

(***************************************************************************)
(* The tables.                                                             *)
(***************************************************************************)
\* `value or None` for a str bound to a nullable TEXT column
OrNull(s) == IF Len(s) = 0 THEN None ELSE JStr(s)

AuditRow(r) ==
    [id |-> audit_id[r], event |-> OrNull(event[r]),
     email |-> OrNull(email[r]), raw |-> data[r], by |-> r]

\* Upsert with DO UPDATE SET active only: updated_at keeps its old value
UpsertActiveOnly(tbl, em, act, ts) ==
    IF \E row \in tbl : row.email = em
    THEN {IF row.email = em THEN [row EXCEPT !.active = act] ELSE row :
             row \in tbl}
    ELSE tbl \cup {[email |-> em, active |-> act, updated_at |-> ts]}

\* Upsert as a plain INSERT on a table without the key
UpsertInsertOnly(tbl, em, act, ts) ==
    tbl \cup {[email |-> em, active |-> act, updated_at |-> ts]}

\* Upsert with ON CONFLICT DO NOTHING
UpsertDoNothing(tbl, em, act, ts) ==
    IF \E row \in tbl : row.email = em
    THEN tbl
    ELSE tbl \cup {[email |-> em, active |-> act, updated_at |-> ts]}

\* INSERT ... ON CONFLICT (email) DO UPDATE SET active, updated_at
Upsert(tbl, em, act, ts) ==
    IF \E row \in tbl : row.email = em
    THEN {IF row.email = em
          THEN [row EXCEPT !.active = act, !.updated_at = ts]
          ELSE row : row \in tbl}
    ELSE tbl \cup {[email |-> em, active |-> act, updated_at |-> ts]}

Init ==
    /\ WEBHOOK_TOKEN \in {<<>>, Secret}
    /\ clock = 1
    /\ subscriptions = {}
    /\ webhook_events = {}
    /\ webhook_events_id_seq = 1
    /\ locked = {}
    /\ sub_commits = <<>>
    /\ pc = [r \in Reqs |-> "idle"]
    /\ request = [r \in Reqs |-> NoRequest]
    /\ data = [r \in Reqs |-> None]
    /\ event = [r \in Reqs |-> <<>>]
    /\ email = [r \in Reqs |-> <<>>]
    /\ new_active = [r \in Reqs |-> None]
    /\ now = [r \in Reqs |-> 0]
    /\ audit_id = [r \in Reqs |-> 0]
    /\ conn = [r \in Reqs |-> FALSE]
    /\ resp = [r \in Reqs |-> NoResponse]
    /\ raised = [r \in Reqs |-> NoException]
    /\ status_pc = "idle"
    /\ status_arg = <<>>
    /\ status_email = <<>>
    /\ status_conn = FALSE
    /\ status_resp = NoStatusResponse

(***************************************************************************)
(* kiwify_webhook, one action per step.                                    *)
(***************************************************************************)
\* lines 177-178: the framework routes a POST /webhook/kiwify to the
\* handler.  Requests are numbered in the order they arrive.
Arrive(r) ==
    /\ pc[r] = "idle"
    /\ \A q \in Reqs : q < r => pc[q] # "idle"
    /\ \E rq \in Requests : request' = [request EXCEPT ![r] = rq]
    /\ pc' = [pc EXCEPT ![r] = "recv"]
    /\ UNCHANGED statusvars
    /\ UNCHANGED <<WEBHOOK_TOKEN, clock, dbvars, locals, conn, resp, raised>>

\* Receive without the token check of lines 180-181
ReceiveNoTokenCheck(r) ==
    /\ pc[r] = "recv"
    /\ request' = [request EXCEPT ![r] = NoRequest]
    /\ IF request[r].body = Malformed
       THEN Finish(r, ErrorResponse(400, "Invalid JSON"),
                   Exception("HTTPException", 186))
       ELSE IF ~IsDict(request[r].body)
       THEN Finish(r, ErrorResponse(500, "Internal Server Error"),
                   Exception("AttributeError", 189))
       ELSE /\ data' = [data EXCEPT ![r] = request[r].body]
            /\ event' = [event EXCEPT ![r] = normalize_event(request[r].body)]
            /\ email' = [email EXCEPT ![r] = pick_email(request[r].body)]
            /\ pc' = [pc EXCEPT ![r] = "audit_conn"]
            /\ UNCHANGED <<new_active, now, audit_id, resp, raised>>
    /\ UNCHANGED statusvars
    /\ UNCHANGED <<WEBHOOK_TOKEN, clock, dbvars, conn>>

\* lines 180-193: token check, body parse, the two debug prints (data.keys()
\* raises AttributeError unless data is a dict), event and email
Receive(r) ==
    /\ pc[r] = "recv"
    /\ request' = [request EXCEPT ![r] = NoRequest]
    /\ IF ~token_ok(request[r])
       THEN Finish(r, ErrorResponse(401, "Invalid webhook token"),
                   Exception("HTTPException", 181))
       ELSE IF request[r].body = Malformed
       THEN Finish(r, ErrorResponse(400, "Invalid JSON"),
                   Exception("HTTPException", 186))
       ELSE IF ~IsDict(request[r].body)
       THEN Finish(r, ErrorResponse(500, "Internal Server Error"),
                   Exception("AttributeError", 189))
       ELSE /\ data' = [data EXCEPT ![r] = request[r].body]
            /\ event' = [event EXCEPT ![r] = normalize_event(request[r].body)]
            /\ email' = [email EXCEPT ![r] = pick_email(request[r].body)]
            /\ pc' = [pc EXCEPT ![r] = "audit_conn"]
            /\ UNCHANGED <<new_active, now, audit_id, resp, raised>>
    /\ UNCHANGED statusvars
    /\ UNCHANGED <<WEBHOOK_TOKEN, clock, dbvars, conn>>

\* line 196: get_conn() succeeds
AuditConnect(r) ==
    /\ pc[r] = "audit_conn"
    /\ conn' = [conn EXCEPT ![r] = TRUE]
    /\ pc' = [pc EXCEPT ![r] = "audit_exec"]
    /\ UNCHANGED statusvars
    /\ UNCHANGED <<WEBHOOK_TOKEN, clock, dbvars, request, locals, resp,
                   raised>>

\* line 196: get_conn() raises
AuditConnectFail(r) ==
    /\ pc[r] = "audit_conn"
    /\ StoreFailure(r, 196)
    /\ UNCHANGED statusvars
    /\ UNCHANGED <<WEBHOOK_TOKEN, clock, dbvars, request, conn>>

\* lines 198-202: the INSERT runs in the connection's transaction and draws
\* the row's id; the row is not yet visible
AuditExecute(r) ==
    /\ pc[r] = "audit_exec"
    /\ audit_id' = [audit_id EXCEPT ![r] = webhook_events_id_seq]
    /\ webhook_events_id_seq' = webhook_events_id_seq + 1
    /\ pc' = [pc EXCEPT ![r] = "audit_commit"]
    /\ UNCHANGED statusvars
    /\ UNCHANGED <<WEBHOOK_TOKEN, clock, subscriptions, webhook_events,
                   locked, sub_commits, request, data, event, email,
                   new_active, now, conn, resp, raised>>

\* lines 198-205: the INSERT raises; finally closes the connection
AuditExecuteFail(r) ==
    /\ pc[r] = "audit_exec"
    /\ conn' = [conn EXCEPT ![r] = FALSE]
    /\ StoreFailure(r, 199)
    /\ UNCHANGED statusvars
    /\ UNCHANGED <<WEBHOOK_TOKEN, clock, dbvars, request>>

\* AuditCommit without the no-email return of lines 207-210
AuditCommitNoEmailCheck(r) ==
    /\ pc[r] = "audit_commit"
    /\ webhook_events' = webhook_events \cup {AuditRow(r)}
    /\ conn' = [conn EXCEPT ![r] = FALSE]
    /\ IF Classify(event[r]) = "ignore"
       THEN Finish(r, Ack("ignored event", email[r], None, event[r]),
                   NoException)
       ELSE /\ new_active' = [new_active EXCEPT ![r] =
                                 JBool(Classify(event[r]) = "activate")]
            /\ pc' = [pc EXCEPT ![r] = "sub_conn"]
            /\ UNCHANGED <<data, event, email, now, audit_id, resp, raised>>
    /\ UNCHANGED statusvars
    /\ UNCHANGED <<WEBHOOK_TOKEN, clock, subscriptions,
                   webhook_events_id_seq, locked, sub_commits, request>>

\* AuditCommit with True and False of lines 236 and 238 exchanged
AuditCommitExchanged(r) ==
    /\ pc[r] = "audit_commit"
    /\ webhook_events' = webhook_events \cup {AuditRow(r)}
    /\ conn' = [conn EXCEPT ![r] = FALSE]
    /\ IF Len(email[r]) = 0
       THEN Finish(r, Ack("no email", <<>>, None, event[r]), NoException)
       ELSE IF Classify(event[r]) = "ignore"
       THEN Finish(r, Ack("ignored event", email[r], None, event[r]),
                   NoException)
       ELSE /\ new_active' = [new_active EXCEPT ![r] =
                                 JBool(Classify(event[r]) # "activate")]
            /\ pc' = [pc EXCEPT ![r] = "sub_conn"]
            /\ UNCHANGED <<data, event, email, now, audit_id, resp, raised>>
    /\ UNCHANGED statusvars
    /\ UNCHANGED <<WEBHOOK_TOKEN, clock, subscriptions,
                   webhook_events_id_seq, locked, sub_commits, request>>

\* AuditCommit whose commit() does not apply the INSERT
AuditCommitNotApplied(r) ==
    /\ pc[r] = "audit_commit"
    /\ conn' = [conn EXCEPT ![r] = FALSE]
    /\ IF Len(email[r]) = 0
       THEN Finish(r, Ack("no email", <<>>, None, event[r]), NoException)
       ELSE IF Classify(event[r]) = "ignore"
       THEN Finish(r, Ack("ignored event", email[r], None, event[r]),
                   NoException)
       ELSE /\ new_active' = [new_active EXCEPT ![r] =
                                 JBool(Classify(event[r]) = "activate")]
            /\ pc' = [pc EXCEPT ![r] = "sub_conn"]
            /\ UNCHANGED <<data, event, email, now, audit_id, resp, raised>>
    /\ UNCHANGED statusvars
    /\ UNCHANGED <<WEBHOOK_TOKEN, clock, dbvars, request>>

\* lines 203-241: the commit makes the audit row visible, finally closes the
\* connection; then the no-email return, the classification and the
\* ignored-event return
AuditCommit(r) ==
    /\ pc[r] = "audit_commit"
    /\ webhook_events' = webhook_events \cup {AuditRow(r)}
    /\ conn' = [conn EXCEPT ![r] = FALSE]
    /\ IF Len(email[r]) = 0
       THEN Finish(r, Ack("no email", <<>>, None, event[r]), NoException)
       ELSE IF Classify(event[r]) = "ignore"
       THEN Finish(r, Ack("ignored event", email[r], None, event[r]),
                   NoException)
       ELSE /\ new_active' = [new_active EXCEPT ![r] =
                                 JBool(Classify(event[r]) = "activate")]
            /\ pc' = [pc EXCEPT ![r] = "sub_conn"]
            /\ UNCHANGED <<data, event, email, now, audit_id, resp, raised>>
    /\ UNCHANGED statusvars
    /\ UNCHANGED <<WEBHOOK_TOKEN, clock, subscriptions,
                   webhook_events_id_seq, locked, sub_commits, request>>

\* AuditCommitFail with the exception swallowed: the handler goes on to the
\* classification without an audit row
AuditCommitFailSwallowed(r) ==
    /\ pc[r] = "audit_commit"
    /\ conn' = [conn EXCEPT ![r] = FALSE]
    /\ new_active' = [new_active EXCEPT ![r] =
                         JBool(Classify(event[r]) = "activate")]
    /\ pc' = [pc EXCEPT ![r] = "sub_conn"]
    /\ UNCHANGED statusvars
    /\ UNCHANGED <<WEBHOOK_TOKEN, clock, dbvars, request, data, event,
                   email, now, audit_id, resp, raised>>

\* lines 203-205: the commit raises and the INSERT is not applied; finally
\* closes the connection
AuditCommitFail(r) ==
    /\ pc[r] = "audit_commit"
    /\ conn' = [conn EXCEPT ![r] = FALSE]
    /\ StoreFailure(r, 203)
    /\ UNCHANGED statusvars
    /\ UNCHANGED <<WEBHOOK_TOKEN, clock, dbvars, request>>

\* lines 244-252: get_conn() succeeds and the arguments of execute are
\* evaluated, datetime.utcnow() among them
UpsertConnect(r) ==
    /\ pc[r] = "sub_conn"
    /\ conn' = [conn EXCEPT ![r] = TRUE]
    /\ now' = [now EXCEPT ![r] = clock]
    /\ clock' = clock + 1
    /\ pc' = [pc EXCEPT ![r] = "sub_exec"]
    /\ UNCHANGED statusvars
    /\ UNCHANGED <<WEBHOOK_TOKEN, dbvars, request, data, event, email,
                   new_active, audit_id, resp, raised>>

\* line 244: get_conn() raises
UpsertConnectFail(r) ==
    /\ pc[r] = "sub_conn"
    /\ StoreFailure(r, 244)
    /\ UNCHANGED statusvars
    /\ UNCHANGED <<WEBHOOK_TOKEN, clock, dbvars, request, conn>>

\* lines 247-252: the upsert runs in the connection's transaction.  It waits
\* while another open transaction has written the row of the same email.
UpsertExecute(r) ==
    /\ pc[r] = "sub_exec"
    /\ email[r] \notin locked
    /\ locked' = locked \cup {email[r]}
    /\ pc' = [pc EXCEPT ![r] = "sub_commit"]
    /\ UNCHANGED statusvars
    /\ UNCHANGED <<WEBHOOK_TOKEN, clock, subscriptions, webhook_events,
                   webhook_events_id_seq, sub_commits, request, locals,
                   conn, resp, raised>>

\* UpsertExecuteFail without the finally of lines 254-255
UpsertExecuteFailLeaking(r) ==
    /\ pc[r] = "sub_exec"
    /\ StoreFailure(r, 247)
    /\ UNCHANGED statusvars
    /\ UNCHANGED <<WEBHOOK_TOKEN, clock, dbvars, request, conn>>

\* lines 247-255: the upsert raises; finally closes the connection
UpsertExecuteFail(r) ==
    /\ pc[r] = "sub_exec"
    /\ conn' = [conn EXCEPT ![r] = FALSE]
    /\ StoreFailure(r, 247)
    /\ UNCHANGED statusvars
    /\ UNCHANGED <<WEBHOOK_TOKEN, clock, dbvars, request>>

\* lines 253-255: the commit applies the upsert and releases the row;
\* finally closes the connection
UpsertCommit(r) ==
    /\ pc[r] = "sub_commit"
    /\ subscriptions' = Upsert(subscriptions, email[r], new_active[r].v,
                               now[r])
    /\ sub_commits' = Append(sub_commits,
                             [by |-> r, email |-> email[r],
                              active |-> new_active[r].v,
                              updated_at |-> now[r]])
    /\ locked' = locked \ {email[r]}
    /\ conn' = [conn EXCEPT ![r] = FALSE]
    /\ pc' = [pc EXCEPT ![r] = "sub_respond"]
    /\ UNCHANGED statusvars
    /\ UNCHANGED <<WEBHOOK_TOKEN, clock, webhook_events,
                   webhook_events_id_seq, request, locals, resp, raised>>

\* UpsertCommitFail with the exception swallowed: the handler acknowledges
UpsertCommitFailSilent(r) ==
    /\ pc[r] = "sub_commit"
    /\ locked' = locked \ {email[r]}
    /\ conn' = [conn EXCEPT ![r] = FALSE]
    /\ Finish(r, Ack("ok", email[r], new_active[r], event[r]), NoException)
    /\ UNCHANGED statusvars
    /\ UNCHANGED <<WEBHOOK_TOKEN, clock, subscriptions, webhook_events,
                   webhook_events_id_seq, sub_commits, request>>

\* lines 253-255: the commit raises and the upsert is not applied; the row
\* is released when finally closes the connection
UpsertCommitFail(r) ==
    /\ pc[r] = "sub_commit"
    /\ locked' = locked \ {email[r]}
    /\ conn' = [conn EXCEPT ![r] = FALSE]
    /\ StoreFailure(r, 253)
    /\ UNCHANGED statusvars
    /\ UNCHANGED <<WEBHOOK_TOKEN, clock, subscriptions, webhook_events,
                   webhook_events_id_seq, sub_commits, request>>

\* lines 257-264: the acknowledgement of a committed upsert
UpsertRespond(r) ==
    /\ pc[r] = "sub_respond"
    /\ Finish(r, Ack("ok", email[r], new_active[r], event[r]), NoException)
    /\ UNCHANGED statusvars
    /\ UNCHANGED <<WEBHOOK_TOKEN, clock, dbvars, request, conn>>

(***************************************************************************)
(* status (GET /status), one action per step.  One caller, one call at a   *)
(* time.                                                                   *)
(***************************************************************************)
\* the email arguments drawn: two spellings of EmailA and an unknown email
StatusArgs ==
    { <<" ", "A", "@", "x">>, <<"a", "@", "X", "\n">>, <<"b", "@", "x">> }

\* StatusCall without lower() in line 72
StatusCallNoLower ==
    /\ status_pc = "idle"
    /\ \E arg \in StatusArgs :
          /\ status_arg' = arg
          /\ status_email' = Strip(arg)
    /\ status_conn' = TRUE
    /\ status_resp' = NoStatusResponse
    /\ status_pc' = "query"
    /\ UNCHANGED <<WEBHOOK_TOKEN, clock, dbvars, pc, request, locals, conn,
                   resp, raised>>

\* lines 71-73: the argument is stripped and lower-cased, get_conn() succeeds
StatusCall ==
    /\ status_pc = "idle"
    /\ \E arg \in StatusArgs :
          /\ status_arg' = arg
          /\ status_email' = Lower(Strip(arg))
    /\ status_conn' = TRUE
    /\ status_resp' = NoStatusResponse
    /\ status_pc' = "query"
    /\ UNCHANGED <<WEBHOOK_TOKEN, clock, dbvars, pc, request, locals, conn,
                   resp, raised>>

\* line 73: get_conn() raises
StatusCallFail ==
    /\ status_pc = "idle"
    /\ status_resp' = StatusError
    /\ UNCHANGED <<status_pc, status_arg, status_email, status_conn>>
    /\ UNCHANGED <<WEBHOOK_TOKEN, clock, dbvars, pc, request, locals, conn,
                   resp, raised>>

\* the end of a call of status: its locals are gone with its frame
StatusReturn(rsp) ==
    /\ status_resp' = rsp
    /\ status_conn' = FALSE
    /\ status_arg' = <<>>
    /\ status_email' = <<>>
    /\ status_pc' = "idle"

\* StatusQuery creating the row it does not find
StatusQueryCreating ==
    /\ status_pc = "query"
    /\ LET rows == {row \in subscriptions : row.email = status_email}
       IN  IF rows = {}
           THEN /\ StatusReturn(StatusNotFound(status_email))
                /\ subscriptions' = subscriptions \cup
                       {[email |-> status_email, active |-> FALSE,
                         updated_at |-> clock]}
           ELSE /\ StatusReturn(StatusFound(CHOOSE row \in rows : TRUE))
                /\ UNCHANGED subscriptions
    /\ UNCHANGED <<WEBHOOK_TOKEN, clock, webhook_events,
                   webhook_events_id_seq, locked, sub_commits, pc, request,
                   locals, conn, resp, raised>>

\* lines 75-91: the SELECT reads the committed row of the key, if any;
\* finally closes the connection
StatusQuery ==
    /\ status_pc = "query"
    /\ LET rows == {row \in subscriptions : row.email = status_email}
       IN  IF rows = {}
           THEN StatusReturn(StatusNotFound(status_email))
           ELSE StatusReturn(StatusFound(CHOOSE row \in rows : TRUE))
    /\ UNCHANGED <<WEBHOOK_TOKEN, clock, dbvars, pc, request, locals, conn,
                   resp, raised>>

\* lines 75-91: the SELECT raises; finally closes the connection
StatusQueryFail ==
    /\ status_pc = "query"
    /\ StatusReturn(StatusError)
    /\ UNCHANGED <<WEBHOOK_TOKEN, clock, dbvars, pc, request, locals, conn,
                   resp, raised>>

Next ==
    \E r \in Reqs :
        \/ Arrive(r)
        \/ Receive(r)
        \/ AuditConnect(r)
        \/ AuditConnectFail(r)
        \/ AuditExecute(r)
        \/ AuditExecuteFail(r)
        \/ AuditCommit(r)
        \/ AuditCommitFail(r)
        \/ UpsertConnect(r)
        \/ UpsertConnectFail(r)
        \/ UpsertExecute(r)
        \/ UpsertExecuteFail(r)
        \/ UpsertCommit(r)
        \/ UpsertCommitFail(r)
        \/ UpsertRespond(r)

Spec == Init /\ [][Next]_vars

\* the webhook together with GET /status
NextStatus ==
    \/ Next
    \/ StatusCall
    \/ StatusCallFail
    \/ StatusQuery
    \/ StatusQueryFail

SpecStatus == Init /\ [][NextStatus]_vars

(***************************************************************************)
(* The token check alone: one request, its credentials drawn from every    *)
(* combination of the three channels, read by Receive.                     *)
(***************************************************************************)
TokenSignatures ==
    { <<>>, << <<>> >>, << <<"s", "3">> >>, << <<" ", "s", "3", "\t">> >>, << <<"S", "3">> >>,
      << <<"x">>, <<"s", "3">> >>, << <<"s", "3", "x">> >> }

TokenHeaderValues ==
    { <<"s", "3">>, <<"\t", "s", "3", " ">>, <<"S", "3">>, <<>> }

TokenAuthorizationValues ==
    { <<"B", "e", "a", "r", "e", "r", " ", "s", "3">>, <<"b", "e", "a", "r", "e", "r", " ", "s", "3">>,
      <<" ", "B", "E", "A", "R", "E", "R", " ", " ", "s", "3", " ">>,
      <<"B", "e", "a", "r", "e", "r", " ", "S", "3">>, <<"B", "e", "a", "r", "e", "r", " ", "s", "3", "x">>,
      <<"B", "a", "s", "i", "c", " ", "s", "3">>, <<"B", "e", "a", "r", "e", "r">>,
      <<"B", "e", "a", "r", "e", "r", "s", "3">>,
      <<"s", "3">> }

\* the headers of a request: xs holds the value of X-Webhook-Token and as
\* that of Authorization; an empty set is an absent header
HeadersOf(xs, as) ==
    [n \in (IF xs = {} THEN {} ELSE {"X-Webhook-Token"})
              \cup (IF as = {} THEN {} ELSE {"Authorization"}) |->
        IF n = "X-Webhook-Token" THEN CHOOSE v \in xs : TRUE
                                 ELSE CHOOSE v \in as : TRUE]

TokenRequests ==
    { [query_signature |-> q, headers |-> HeadersOf(xs, as),
       body |-> PaidNoEmail] :
          q \in TokenSignatures,
          xs \in {{}} \cup {{v} : v \in TokenHeaderValues},
          as \in {{}} \cup {{v} : v \in TokenAuthorizationValues} }

InitToken ==
    /\ WEBHOOK_TOKEN \in {<<>>, Secret}
    /\ clock = 1
    /\ subscriptions = {}
    /\ webhook_events = {}
    /\ webhook_events_id_seq = 1
    /\ locked = {}
    /\ sub_commits = <<>>
    /\ pc = [r \in Reqs |-> IF r = 1 THEN "recv" ELSE "idle"]
    /\ \E rq \in TokenRequests :
          request = [r \in Reqs |-> IF r = 1 THEN rq ELSE NoRequest]
    /\ data = [r \in Reqs |-> None]
    /\ event = [r \in Reqs |-> <<>>]
    /\ email = [r \in Reqs |-> <<>>]
    /\ new_active = [r \in Reqs |-> None]
    /\ now = [r \in Reqs |-> 0]
    /\ audit_id = [r \in Reqs |-> 0]
    /\ conn = [r \in Reqs |-> FALSE]
    /\ resp = [r \in Reqs |-> NoResponse]
    /\ raised = [r \in Reqs |-> NoException]
    /\ status_pc = "idle"
    /\ status_arg = <<>>
    /\ status_email = <<>>
    /\ status_conn = FALSE
    /\ status_resp = NoStatusResponse

NextToken == \E r \in Reqs : Receive(r)

SpecToken == InitToken /\ [][NextToken]_vars

(***************************************************************************)
(* The payload helpers alone: one request in open mode, its payload drawn  *)
(* from every combination of the event fields and the email fields below,  *)
(* then handled to the end.                                                *)
(***************************************************************************)
NoFields == [x \in {} |-> None]

EventFields ==
    { NoFields,
      [event |-> JStr(<<"C", "o", "m", "p", "r", "a", " ", "A", "p", "r", "o", "v", "a", "d", "a">>)],
      [event |-> JStr(<<>>), type |-> JStr(<<" ", "P", "a", "i", "d", " ">>)],
      [event |-> None, evento |-> JStr(<<"r", "e", "f", "u", "n", "d">>)],
      [event |-> JInt(0), Event |-> JStr(<<"C", "A", "N", "C", "E", "L", "E", "D">>)],
      [event |-> JBool(FALSE), name |-> JStr(<<"a", "p", "p", "r", "o", "v", "e", "d">>)],
      [event |-> JList(<<>>), webhook_event_type |-> JStr(<<"o", "r", "d", "e", "r", "_", "a", "p", "p", "r", "o", "v", "e", "d">>)],
      [event |-> EmptyDict, order_status |-> JStr(<<"p", "a", "i", "d">>)],
      [event |-> JStr(<<"t", "r", "i", "a", "l">>), order_status |-> JStr(<<"p", "a", "i", "d">>)],
      [type |-> JStr(<<"c", "h", "a", "r", "g", "e", "b", "a", "c", "k">>), evento |-> JStr(<<"p", "a", "i", "d">>)],
      [event |-> JInt(7)],
      [event |-> JBool(TRUE)],
      [event |-> JList(<<JStr(<<"a", " ", "b">>)>>)],
      [event |-> JStr(<<" ">>), type |-> JStr(<<"p", "a", "i", "d">>)],
      [event |-> JStr(<<"A", "\t", "B", " ", "c">>)] }

EmailFields ==
    { NoFields,
      [customer |-> JDict([email |-> JStr(<<" ", "A", "@", "x">>)]), email |-> JStr(<<"b", "@", "x">>)],
      [customer |-> JStr(<<"c", "@", "x">>), email |-> JStr(<<"b", "@", "x">>)],
      [customer |-> JDict([email |-> JInt(5)]), Customer |-> JDict([email |-> JStr(<<"C", "@", "x">>)])],
      [customer |-> JDict([email |-> JStr(<<"n", "o", "p", "e">>)]), buyer |-> JDict([email |-> JStr(<<"B", "@", "x", "\n">>)])],
      [order |-> JDict([customer |-> JDict([email |-> JStr(<<"o", "@", "x">>)]), customer_email |-> JStr(<<"p", "@", "x">>)])],
      [order |-> JDict([customer |-> JList(<<JStr(<<"o", "@", "x">>)>>), customer_email |-> JStr(<<"p", "@", "x">>)])],
      [order |-> JList(<<JStr(<<"o", "@", "x">>)>>), customer_email |-> JStr(<<"q", "@", "x">>), customerEmail |-> JStr(<<"r", "@", "x">>)],
      [customerEmail |-> JStr(<<"r", "@", "x">>), email |-> JStr(<<"b", "@", "x">>)],
      [email |-> JStr(<<"@">>), data |-> JDict([customer |-> JDict([email |-> JStr(<<"d", "@", "x">>)])])],
      [data |-> JDict([customer |-> JDict([email |-> None]), Customer |-> JDict([email |-> JStr(<<"D", "@", "X">>)])])],
      [data |-> JDict([customer |-> JDict([email |-> JStr(<<"d", "@", "x">>)])])],
      [email |-> JList(<<JStr(<<"a", "@", "x">>)>>)],
      [email |-> JStr(<<"a", ".", "x">>)],
      [buyer |-> JDict([Email |-> JStr(<<"a", "@", "x">>)])],
      [customer |-> None, buyer |-> JBool(TRUE), email |-> JStr(<<"\t", " ", "a", "@", "X", " ">>)] }

\* the JSON object with the members of f and of g (their keys differ)
Merge(f, g) ==
    JDict([key \in DOMAIN f \cup DOMAIN g |->
              IF key \in DOMAIN f THEN f[key] ELSE g[key]])

Payloads == {Merge(f, g) : f \in EventFields, g \in EmailFields}

InitPayload ==
    /\ WEBHOOK_TOKEN = <<>>
    /\ clock = 1
    /\ subscriptions = {}
    /\ webhook_events = {}
    /\ webhook_events_id_seq = 1
    /\ locked = {}
    /\ sub_commits = <<>>
    /\ pc = [r \in Reqs |-> IF r = 1 THEN "recv" ELSE "idle"]
    /\ \E b \in Payloads :
          request = [r \in Reqs |-> IF r = 1 THEN WithBody(NoRequest, b)
                                             ELSE NoRequest]
    /\ data = [r \in Reqs |-> None]
    /\ event = [r \in Reqs |-> <<>>]
    /\ email = [r \in Reqs |-> <<>>]
    /\ new_active = [r \in Reqs |-> None]
    /\ now = [r \in Reqs |-> 0]
    /\ audit_id = [r \in Reqs |-> 0]
    /\ conn = [r \in Reqs |-> FALSE]
    /\ resp = [r \in Reqs |-> NoResponse]
    /\ raised = [r \in Reqs |-> NoException]
    /\ status_pc = "idle"
    /\ status_arg = <<>>
    /\ status_email = <<>>
    /\ status_conn = FALSE
    /\ status_resp = NoStatusResponse

NextPayload ==
    \E r \in Reqs :
        \/ Receive(r)
        \/ AuditConnect(r)
        \/ AuditConnectFail(r)
        \/ AuditExecute(r)
        \/ AuditExecuteFail(r)
        \/ AuditCommit(r)
        \/ AuditCommitFail(r)
        \/ UpsertConnect(r)
        \/ UpsertConnectFail(r)
        \/ UpsertExecute(r)
        \/ UpsertExecuteFail(r)
        \/ UpsertCommit(r)
        \/ UpsertCommitFail(r)
        \/ UpsertRespond(r)

SpecPayload == InitPayload /\ [][NextPayload]_vars

(***************************************************************************)
(* What the claims read.                                                   *)
(***************************************************************************)
AuditRowsBy(r) == {row \in webhook_events : row.by = r}

CommitsBy(r) == {i \in DOMAIN sub_commits : sub_commits[i].by = r}

CommitsFor(em) == {i \in DOMAIN sub_commits : sub_commits[i].email = em}

RowsFor(em) == {row \in subscriptions : row.email = em}

Emails ==
    {row.email : row \in subscriptions}
        \cup {sub_commits[i].email : i \in DOMAIN sub_commits}

\* the request was answered and no datastore error ended it
AnsweredStoreUp(r) == pc[r] = "done" /\ raised[r].type # "StoreUnavailable"

\* the 200 of lines 259-264, with the given active value
IsAck(rsp, act) ==
    rsp.status = 200 /\ rsp.note = "ok" /\ rsp.active = JBool(act)

\* the audit row records an Activate or Deactivate event for an email
Classified(row) ==
    /\ row.email # None
    /\ row.event # None
    /\ Classify(row.event.v) # "ignore"

(***************************************************************************)
(* C1.  Every request that passes the token check and has a well-formed    *)
(* JSON body (any answer but 401 and 400) gets exactly one audit row,      *)
(* datastore failures apart.  The code breaks this for every JSON body     *)
(* that is not an object: data.keys() raises before the INSERT.            *)
(***************************************************************************)
C1_OneAuditRowPerRequest ==
    \A r \in Reqs :
        (AnsweredStoreUp(r) /\ resp[r].status \notin {401, 400})
            => Cardinality(AuditRowsBy(r)) = 1

(***************************************************************************)
(* C2.  Whatever the interleaving, subscriptions has at most one row per   *)
(* email, and that row's (active, updated_at) is the pair of the upsert    *)
(* that committed last for that email.                                     *)
(***************************************************************************)
C2_LastCommitWins ==
    \A em \in Emails :
        /\ Cardinality(RowsFor(em)) <= 1
        /\ CommitsFor(em) # {}
        /\ LET last == sub_commits[SetMax(CommitsFor(em))]
           IN  RowsFor(em) = {[email |-> em, active |-> last.active,
                               updated_at |-> last.updated_at]}

\* two requests raced: the upsert that committed last carries the other
\* active value and the earlier timestamp
C2_Witness ==
    /\ Len(sub_commits) = 2
    /\ sub_commits[1].by # sub_commits[2].by
    /\ sub_commits[1].email = sub_commits[2].email
    /\ sub_commits[1].active # sub_commits[2].active
    /\ sub_commits[2].updated_at < sub_commits[1].updated_at

(***************************************************************************)
(* C3.  No committed upsert lowers a row's updated_at.  The code breaks    *)
(* this: a request reads the clock before its upsert runs, and a request   *)
(* that read it later can commit first.                                    *)
(***************************************************************************)
C3_UpdatedAtMonotone ==
    [][\A old \in subscriptions : \A new \in subscriptions' :
          new.email = old.email => new.updated_at >= old.updated_at]_vars

(***************************************************************************)
(* C4.  Once the same Activate event for an email has been acknowledged N  *)
(* times, and no Deactivate event for that email was received, there is    *)
(* exactly one row for the email, it is active, and those N requests have  *)
(* exactly N audit rows.                                                   *)
(***************************************************************************)
ActivatedBy(em) ==
    {r \in Reqs : pc[r] = "done" /\ IsAck(resp[r], TRUE)
                  /\ resp[r].email = em}

C4_Idempotent ==
    \A em \in Emails :
        LET S == ActivatedBy(em)
        IN  (/\ S # {}
             /\ \A r, q \in S : resp[r] = resp[q]
             /\ ~\E row \in webhook_events :
                   /\ Classified(row)
                   /\ row.email.v = em
                   /\ Classify(row.event.v) = "deactivate")
            => /\ \E row \in subscriptions :
                     RowsFor(em) = {row} /\ row.active = TRUE
               /\ Cardinality({row \in webhook_events : row.by \in S})
                     = Cardinality(S)
               /\ \A r, q \in S :
                     \A x \in AuditRowsBy(r), y \in AuditRowsBy(q) :
                         x.raw = y.raw

\* the same Activate event was acknowledged at least twice
C4_Witness ==
    \E em \in Emails :
        /\ Cardinality(ActivatedBy(em)) >= 2
        /\ \A row \in webhook_events :
               Classified(row) /\ Classify(row.event.v) = "activate"

(***************************************************************************)
(* C5, as claimed.  When a Deactivate request is answered after an         *)
(* Activate request for the same email was, the row is inactive with the   *)
(* Deactivate request's timestamp, and the two have two audit rows.        *)
(***************************************************************************)
\* a and d are the only requests whose upsert for their email committed
OnlyUpserts(a, d, em) ==
    {sub_commits[i].by : i \in CommitsFor(em)} = {a, d}

C5_AnsweredInOrder ==
    [][\A a, d \in Reqs :
          (/\ pc[a] = "done" /\ IsAck(resp[a], TRUE)
           /\ pc[d] # "done" /\ pc'[d] = "done" /\ IsAck(resp'[d], FALSE)
           /\ resp'[d].email = resp[a].email
           /\ OnlyUpserts(a, d, resp[a].email))
          => /\ \E row \in subscriptions' :
                   /\ row.email = resp[a].email
                   /\ row.active = FALSE
                   /\ \E i \in CommitsBy(d) :
                          row.updated_at = sub_commits[i].updated_at
             /\ Cardinality(AuditRowsBy(a) \cup AuditRowsBy(d)) = 2]_vars

(***************************************************************************)
(* C5, amended.  When both requests have been answered and the Deactivate  *)
(* request's upsert committed after the Activate request's (as it does     *)
(* whenever the Deactivate request arrives after the Activate request was  *)
(* answered), the row is inactive with the Deactivate request's timestamp  *)
(* and the two have two audit rows.                                        *)
(***************************************************************************)
C5_CommittedInOrder ==
    \A a, d \in Reqs :
        (/\ pc[a] = "done" /\ IsAck(resp[a], TRUE)
         /\ pc[d] = "done" /\ IsAck(resp[d], FALSE)
         /\ resp[d].email = resp[a].email
         /\ OnlyUpserts(a, d, resp[a].email)
         /\ SetMax(CommitsBy(a)) < SetMin(CommitsBy(d)))
        => /\ \E i \in CommitsBy(d) :
                 RowsFor(resp[a].email)
                     = {[email |-> resp[a].email, active |-> FALSE,
                         updated_at |-> sub_commits[i].updated_at]}
           /\ Cardinality(AuditRowsBy(a) \cup AuditRowsBy(d)) = 2

\* Activate then Deactivate, both answered, committed in that order
C5_Witness ==
    \E a, d \in Reqs :
        /\ pc[a] = "done" /\ IsAck(resp[a], TRUE)
        /\ pc[d] = "done" /\ IsAck(resp[d], FALSE)
        /\ resp[d].email = resp[a].email
        /\ CommitsBy(a) # {} /\ CommitsBy(d) # {}
        /\ SetMax(CommitsBy(a)) < SetMin(CommitsBy(d))
        /\ OnlyUpserts(a, d, resp[a].email)

(***************************************************************************)
(* C6.  The step that reads the request answers 401 when the token check   *)
(* fails and 400 when the token check passes and the body is not JSON, and *)
(* in both cases ends the request with both tables as they were.           *)
(***************************************************************************)
C6_RejectedWritesNothing ==
    [][\A r \in Reqs :
          (pc[r] = "recv" /\ pc'[r] # "recv"
           /\ (~token_ok(request[r]) \/ request[r].body = Malformed))
          => /\ pc'[r] = "done"
             /\ resp'[r].status = IF ~token_ok(request[r]) THEN 401 ELSE 400
             /\ ~resp'[r].received
             /\ subscriptions' = subscriptions
             /\ webhook_events' = webhook_events
             /\ AuditRowsBy(r) = {} /\ CommitsBy(r) = {}]_vars

\* one request was refused for its token and another for its body
C6_Witness ==
    /\ \E r \in Reqs : resp[r].status = 401
    /\ \E r \in Reqs : resp[r].status = 400

(***************************************************************************)
(* C7.  No step of a request whose payload has no email, or whose event is *)
(* in neither set, changes subscriptions; and when it is answered 200 it   *)
(* has exactly one audit row.                                              *)
(***************************************************************************)
Unclassified(em, ev) == Len(em) = 0 \/ Classify(ev) = "ignore"

C7_UnclassifiedLeavesSubscriptions ==
    [][\A r \in Reqs :
          (\/ /\ pc[r] = "recv" /\ pc'[r] = "audit_conn"
              /\ Unclassified(email'[r], event'[r])
           \/ /\ pc[r] \notin {"idle", "recv", "done"} /\ pc'[r] # pc[r]
              /\ Unclassified(email[r], event[r]))
          => /\ subscriptions' = subscriptions
             /\ sub_commits' = sub_commits
             /\ resp'[r].status = 200
                   => /\ resp'[r].received
                      /\ resp'[r].note \in {"no email", "ignored event"}
                      /\ Cardinality({row \in webhook_events' : row.by = r})
                            = 1]_vars

\* an ignored event and a payload without email were both acknowledged
C7_Witness ==
    /\ \E r \in Reqs : resp[r].note = "ignored event" /\ AuditRowsBy(r) # {}
    /\ \E r \in Reqs : resp[r].note = "no email" /\ AuditRowsBy(r) # {}

(***************************************************************************)
(* C8.  With the datastore available, a request is answered 200 with       *)
(* received = true unless it is answered 401 or 400.  The code breaks this *)
(* for every JSON body that is not an object (see C1): the answer is 500.  *)
(***************************************************************************)
C8_OnlyAuthAndBodyErrors ==
    \A r \in Reqs :
        AnsweredStoreUp(r)
            => \/ resp[r].status \in {401, 400}
               \/ resp[r].status = 200 /\ resp[r].received

(***************************************************************************)
(* C9.  A request is answered 200 with email and active only if its upsert *)
(* has committed with that email and that active value; a request ended by *)
(* a datastore error is answered 500.                                      *)
(***************************************************************************)
C9_AckOnlyAfterCommit ==
    \A r \in Reqs :
        /\ (resp[r].status = 200 /\ resp[r].active # None)
              => \E i \in CommitsBy(r) :
                    /\ sub_commits[i].email = resp[r].email
                    /\ JBool(sub_commits[i].active) = resp[r].active
        /\ raised[r].type = "StoreUnavailable"
              => resp[r].status = 500 /\ ~resp[r].received

\* one upsert was acknowledged and another failed
C9_Witness ==
    /\ \E r \in Reqs : resp[r].status = 200 /\ resp[r].active # None
    /\ \E r \in Reqs : raised[r].type = "StoreUnavailable"
                       /\ raised[r].line \in {244, 247, 253}

(***************************************************************************)
(* C10, as claimed.  A request ended by a datastore error never leaves its *)
(* audit row persisted while its own Activate/Deactivate upsert is not     *)
(* applied.                                                                *)
(***************************************************************************)
C10_NoAuditWithoutUpsert ==
    \A r \in Reqs :
        raised[r].type = "StoreUnavailable"
            => ~\E row \in AuditRowsBy(r) :
                   Classified(row) /\ CommitsBy(r) = {}

(***************************************************************************)
(* C10, amended.  A request ended by a datastore error leaves each of its  *)
(* two writes applied whole or not at all, and never its upsert without    *)
(* its audit row; its audit row does stay persisted without its upsert     *)
(* when the error comes after the audit commit.                            *)
(***************************************************************************)
C10_WholeWritesAuditFirst ==
    \A r \in Reqs :
        raised[r].type = "StoreUnavailable"
            => /\ Cardinality(AuditRowsBy(r)) <= 1
               /\ Cardinality(CommitsBy(r)) <= 1
               /\ raised[r].line \in {196, 199} => AuditRowsBy(r) = {}
               /\ raised[r].line \in {244, 247, 253}
                     => \E row \in AuditRowsBy(r) : Classified(row)
               /\ raised[r].line \in {196, 199, 203, 244, 247}
                     => CommitsBy(r) = {}
               /\ \A i \in CommitsBy(r) :
                     \E row \in AuditRowsBy(r) :
                         row.email = JStr(sub_commits[i].email)
               /\ \A row \in subscriptions :
                     \E i \in DOMAIN sub_commits :
                         /\ sub_commits[i].email = row.email
                         /\ sub_commits[i].active = row.active
                         /\ sub_commits[i].updated_at = row.updated_at

\* an error after the audit commit: the audit row stays, the upsert is absent
C10_Witness ==
    \E r \in Reqs :
        /\ raised[r].type = "StoreUnavailable"
        /\ raised[r].line \in {244, 247, 253}
        /\ AuditRowsBy(r) # {}
        /\ CommitsBy(r) = {}

(***************************************************************************)
(* C11.  The token check passes if and only if the configured secret is    *)
(* empty or one of these equals it once stripped, letter case kept: some   *)
(* occurrence of the signature query parameter, the X-Webhook-Token        *)
(* header, or what follows the scheme of an Authorization header whose     *)
(* scheme is "bearer" in any letter case; and the request is answered 401  *)
(* exactly when the check does not pass.                                   *)
(***************************************************************************)
SignatureMatches(rq) ==
    \E i \in DOMAIN rq.query_signature :
        Strip(rq.query_signature[i]) = WEBHOOK_TOKEN

HeaderTokenMatches(rq) ==
    /\ "X-Webhook-Token" \in DOMAIN rq.headers
    /\ Strip(rq.headers["X-Webhook-Token"]) = WEBHOOK_TOKEN

\* the header is <scheme> <token>, scheme and token parted by a space
BearerMatches(rq) ==
    /\ "Authorization" \in DOMAIN rq.headers
    /\ LET h == Strip(rq.headers["Authorization"])
       IN  \E k \in 1..Len(h) :
               /\ h[k] = " "
               /\ \A j \in 1..(k - 1) : h[j] # " "
               /\ Lower(SubSeq(h, 1, k - 1)) = <<"b", "e", "a", "r", "e", "r">>
               /\ Strip(SubSeq(h, k + 1, Len(h))) = WEBHOOK_TOKEN

Authorized(rq) ==
    \/ WEBHOOK_TOKEN = <<>>
    \/ SignatureMatches(rq)
    \/ HeaderTokenMatches(rq)
    \/ BearerMatches(rq)

C11_TokenOkIffAuthorized ==
    [][\A r \in Reqs :
          (pc[r] = "recv" /\ pc'[r] # "recv")
          => /\ token_ok(request[r]) <=> Authorized(request[r])
             /\ (resp'[r].status = 401) <=> ~Authorized(request[r])]_vars

\* a request was let through under a configured secret
C11_Witness ==
    /\ WEBHOOK_TOKEN = Secret
    /\ pc[1] = "audit_conn"
    /\ resp[1].status # 401

(***************************************************************************)
(* C12.  When GET /status answers a call whose argument spells, in any     *)
(* letter case and with any surrounding whitespace, an email for which an  *)
(* Activate request has been acknowledged and no Deactivate upsert has     *)
(* committed after that request's, the answer is found and active; when    *)
(* the argument spells no email that has a row, the answer is not found    *)
(* and not active.                                                         *)
(***************************************************************************)
SameLetter(c, d) ==
    \/ c = d
    \/ \E n \in 1..Len(UpperChars) : c = UpperChars[n] /\ d = LowerChars[n]

\* v is e with some letters in upper case, between runs of whitespace
Spells(v, e) ==
    \E i \in 1..(Len(v) + 1) :
        /\ i + Len(e) - 1 <= Len(v)
        /\ \A k \in 1..Len(v) :
               IF k < i \/ k > i + Len(e) - 1
               THEN v[k] \in WhitespaceChars
               ELSE SameLetter(v[k], e[k - i + 1])

\* request a was acknowledged as an Activate for e, and no upsert for e
\* that committed after a's is a Deactivate
ActivatedAndNotSince(a, e) ==
    /\ pc[a] = "done"
    /\ IsAck(resp[a], TRUE)
    /\ resp[a].email = e
    /\ \A i \in CommitsFor(e) :
           (\A j \in CommitsBy(a) : i > j) => sub_commits[i].active

C12_StatusRoundTrip ==
    [][(status_pc = "query" /\ status_pc' = "idle"
        /\ status_resp'.status = 200)
       => /\ \A a \in Reqs :
                (/\ Spells(status_arg, resp[a].email)
                 /\ ActivatedAndNotSince(a, resp[a].email))
                => status_resp'.found /\ status_resp'.active
          /\ (\A row \in subscriptions : ~Spells(status_arg, row.email))
                => ~status_resp'.found /\ ~status_resp'.active]_vars

\* status answered found and active for an email whose Activate request
\* had been acknowledged
C12_Witness ==
    /\ status_resp.status = 200
    /\ status_resp.found /\ status_resp.active
    /\ \E a \in Reqs : ActivatedAndNotSince(a, status_resp.email)

(***************************************************************************)
(* C13.  No step of GET /status changes the subscriptions table or the     *)
(* webhook_events table.                                                   *)
(***************************************************************************)
C13_StatusNoSideEffects ==
    [][(statusvars' # statusvars)
       => /\ subscriptions' = subscriptions
          /\ webhook_events' = webhook_events]_vars

\* status has answered over tables that hold rows
C13_Witness ==
    /\ status_resp.status = 200
    /\ subscriptions # {}
    /\ webhook_events # {}

(***************************************************************************)
(* C17.  A request that has finished, whichever way, holds no open         *)
(* connection, and neither does GET /status once it has answered; a        *)
(* connection is open only between a get_conn() and the close() of the     *)
(* finally that follows it.                                                *)
(***************************************************************************)
C17_ConnectionsReleased ==
    /\ \A r \in Reqs :
           /\ pc[r] = "done" => ~conn[r]
           /\ conn[r] <=> pc[r] \in {"audit_exec", "audit_commit",
                                      "sub_exec", "sub_commit"}
    /\ status_pc = "idle" => ~status_conn
    /\ status_conn <=> status_pc = "query"

\* one request ended by an exception while executing or committing, another
\* acknowledged, and a call of status ended by an exception in its SELECT
C17_Witness ==
    /\ \A r \in Reqs : pc[r] = "done"
    /\ \E r \in Reqs : raised[r].line \in {199, 203, 247, 253}
    /\ \E r \in Reqs : resp[r].status = 200
    /\ status_pc = "idle" /\ status_resp = StatusError

(***************************************************************************)
(* What the claims about the payload helpers say, written out without the  *)
(* helpers' own operators.                                                 *)
(***************************************************************************)
RECURSIVE TrimLeft(_)
TrimLeft(s) ==
    IF s = <<>> THEN s
    ELSE IF Head(s) \in WhitespaceChars THEN TrimLeft(Tail(s))
    ELSE s

RECURSIVE TrimRight(_)
TrimRight(s) ==
    IF s = <<>> THEN s
    ELSE IF s[Len(s)] \in WhitespaceChars
    THEN TrimRight(SubSeq(s, 1, Len(s) - 1))
    ELSE s

Trimmed(s) == TrimRight(TrimLeft(s))

RECURSIVE LowerCased(_)
LowerCased(s) ==
    IF s = <<>> THEN s
    ELSE LET c == Head(s)
             n == {i \in 1..Len(UpperChars) : UpperChars[i] = c}
         IN  <<IF n = {} THEN c ELSE LowerChars[CHOOSE i \in n : TRUE]>>
                 \o LowerCased(Tail(s))

RECURSIVE Underscored(_)
Underscored(s) ==
    IF s = <<>> THEN s
    ELSE <<IF Head(s) = " " THEN "_" ELSE Head(s)>> \o Underscored(Tail(s))

NoMatch == [k |-> "nomatch", v |-> 0]

\* the value path resolves to from node; no match when a node on the way
\* is not a mapping or lacks the key
RECURSIVE Resolve(_, _)
Resolve(node, path) ==
    IF path = <<>> THEN node
    ELSE IF node.k # "dict" THEN NoMatch
    ELSE IF Head(path) \notin DOMAIN node.v THEN NoMatch
    ELSE Resolve(node.v[Head(path)], Tail(path))

\* path resolves to a string containing "@"
Matches(node, path) ==
    LET x == Resolve(node, path)
    IN  x.k = "str" /\ \E i \in DOMAIN x.v : x.v[i] = "@"

\* the first match among the paths from the i-th on, trimmed and lower-cased
RECURSIVE FirstEmail(_, _)
FirstEmail(payload, i) ==
    IF i > Len(paths) THEN <<>>
    ELSE IF Matches(payload, paths[i])
    THEN LowerCased(Trimmed(Resolve(payload, paths[i]).v))
    ELSE FirstEmail(payload, i + 1)

\* a value that counts as empty: null, false, zero, "", [] and {}
IsEmptyValue(x) ==
    x \in {None, JBool(FALSE), JInt(0), JStr(<<>>), JList(<<>>), EmptyDict}

\* the first present, non-empty event field from the i-th on, as text
RECURSIVE FirstEvent(_, _)
FirstEvent(payload, i) ==
    IF i > Len(event_fields) THEN <<>>
    ELSE IF /\ event_fields[i] \in DOMAIN payload.v
            /\ ~IsEmptyValue(payload.v[event_fields[i]])
    THEN PyStr(payload.v[event_fields[i]])
    ELSE FirstEvent(payload, i + 1)

\* the step of request r that computes event and email
Normalizes(r) == pc[r] = "recv" /\ pc'[r] = "audit_conn"

(***************************************************************************)
(* C14.  For a request with an email, the step that classifies makes the   *)
(* request an Activate iff its event is in active_events, a Deactivate iff *)
(* it is in inactive_events, and ignores it iff it is in neither, the      *)
(* empty event included; the two sets are disjoint, and testing them in    *)
(* the other order gives the same outcome.                                 *)
(***************************************************************************)
\* lines 234-241 with the two tests in the other order
ClassifyInactiveFirst(ev) ==
    IF ev \in inactive_events THEN "deactivate"
    ELSE IF ev \in active_events THEN "activate"
    ELSE "ignore"

C14_ClassificationTotal ==
    [][\A r \in Reqs :
          (/\ pc[r] = "audit_commit" /\ pc'[r] # "audit_commit"
           /\ raised'[r] = NoException
           /\ email[r] # <<>>)
          => LET activates   == /\ pc'[r] = "sub_conn"
                                /\ new_active'[r] = JBool(TRUE)
                 deactivates == /\ pc'[r] = "sub_conn"
                                /\ new_active'[r] = JBool(FALSE)
                 ignores     == /\ pc'[r] = "done"
                                /\ resp'[r].note = "ignored event"
             IN  /\ activates <=> event[r] \in active_events
                 /\ deactivates <=> event[r] \in inactive_events
                 /\ ignores <=> event[r] \notin active_events
                                                \cup inactive_events
                 /\ activates \/ deactivates \/ ignores
                 /\ active_events \cap inactive_events = {}
                 /\ ClassifyInactiveFirst(event[r]) = Classify(event[r])]_vars

\* a payload with an email and no event was ignored
C14_Witness ==
    \E r \in Reqs :
        /\ pc[r] = "done"
        /\ resp[r].note = "ignored event"
        /\ resp[r].event = <<>>
        /\ resp[r].email # <<>>

(***************************************************************************)
(* C15.  The email a request computes is the value, trimmed and            *)
(* lower-cased, at the first of the paths that resolves to a string        *)
(* containing "@", where a path through a node that is not a mapping, or   *)
(* to a value that is not a string or lacks "@", is passed over; it is the *)
(* empty string when no path matches.  customer.email wins over the        *)
(* top-level email.                                                        *)
(***************************************************************************)
C15_PickEmailFirstMatch ==
    [][\A r \in Reqs :
          Normalizes(r)
          => /\ email'[r] = FirstEmail(request[r].body, 1)
             /\ pick_email(request[r].body) = FirstEmail(request[r].body, 1)
             /\ Matches(request[r].body, <<"customer", "email">>)
                   => email'[r] = LowerCased(Trimmed(
                         request[r].body.v.customer.v.email.v))]_vars

\* customer.email and the top-level email both match; the former was taken
C15_Witness ==
    \E r \in Reqs :
        /\ pc[r] = "audit_conn"
        /\ Matches(data[r], <<"customer", "email">>)
        /\ Matches(data[r], <<"email">>)
        /\ email[r] = EmailA
        /\ email[r] # LowerCased(Trimmed(data[r].v.email.v))

(***************************************************************************)
(* C16.  The event a request computes is the first present, non-empty      *)
(* value among event, type, evento, Event, name, webhook_event_type and    *)
(* order_status, in this order, trimmed, lower-cased and with its spaces   *)
(* replaced by underscores; it is the empty string when none is present.   *)
(* "Compra Aprovada" gives "compra_aprovada", an Activate.                 *)
(***************************************************************************)
CompraAprovada ==
    <<"C", "o", "m", "p", "r", "a", " ", "A", "p", "r", "o", "v", "a", "d", "a">>

C16_NormalizeEvent ==
    [][\A r \in Reqs :
          Normalizes(r)
          => LET body == request[r].body
                 text == Underscored(LowerCased(Trimmed(FirstEvent(body, 1))))
             IN  /\ event'[r] = text
                 /\ normalize_event(body) = text
                 /\ (\A i \in DOMAIN event_fields :
                        event_fields[i] \notin DOMAIN body.v)
                       => event'[r] = <<>>
                 /\ ("event" \in DOMAIN body.v
                        /\ body.v.event = JStr(CompraAprovada))
                       => /\ event'[r] = <<"c", "o", "m", "p", "r", "a", "_",
                                           "a", "p", "r", "o", "v", "a", "d",
                                           "a">>
                          /\ event'[r] \in active_events]_vars

\* "Compra Aprovada" was normalized
C16_Witness ==
    \E r \in Reqs :
        /\ pc[r] = "audit_conn"
        /\ "event" \in DOMAIN data[r].v
        /\ data[r].v.event = JStr(CompraAprovada)
        /\ Classify(event[r]) = "activate"

(***************************************************************************)
(* What C18 and C19 read.                                                  *)
(***************************************************************************)
\* no webhook request is in flight
Quiescent == \A r \in Reqs : pc[r] \in {"idle", "done"}

\* the audit rows that record an Activate or Deactivate event for em
ClassifiedRowsFor(em) ==
    {row \in webhook_events : Classified(row) /\ row.email.v = em}

\* the one of them inserted last
LatestClassifiedRow(em) ==
    CHOOSE row \in ClassifiedRowsFor(em) :
        \A other \in ClassifiedRowsFor(em) : other.id <= row.id

\* the active value the audit row's event classifies to
ActiveOf(row) == Classify(row.event.v) = "activate"

\* every request with a classified audit row for em committed its upsert,
\* and the upserts committed in the order the audit rows were inserted
CommittedInInsertionOrder(em) ==
    /\ \A x \in ClassifiedRowsFor(em) : CommitsBy(x.by) # {}
    /\ \A x, y \in ClassifiedRowsFor(em) :
           x.id < y.id => SetMax(CommitsBy(x.by)) < SetMin(CommitsBy(y.by))

(***************************************************************************)
(* C18, as claimed.  Whenever no webhook request is in flight, the active  *)
(* value of each subscriptions row is the one the event of the most        *)
(* recently inserted classified audit row for its email classifies to.     *)
(* Requests ended by a datastore error are left aside: the statement fails *)
(* without them.                                                           *)
(***************************************************************************)
C18_LatestAuditRowDecides ==
    (Quiescent /\ \A r \in Reqs : raised[r].type # "StoreUnavailable")
        => \A row \in subscriptions :
               /\ ClassifiedRowsFor(row.email) # {}
               /\ row.active = ActiveOf(LatestClassifiedRow(row.email))

(***************************************************************************)
(* C18, amended.  Whenever no webhook request is in flight, the active     *)
(* value of each subscriptions row is the one classified by the audit row  *)
(* of the request whose upsert for that email committed last; it is that   *)
(* of the most recently inserted classified audit row when every such      *)
(* request committed its upsert and they committed in insertion order.     *)
(***************************************************************************)
C18_LastCommittedDecides ==
    Quiescent
        => \A row \in subscriptions :
               /\ CommitsFor(row.email) # {}
               /\ LET last == sub_commits[SetMax(CommitsFor(row.email))]
                  IN  \E a \in AuditRowsBy(last.by) :
                          /\ a \in ClassifiedRowsFor(row.email)
                          /\ row.active = ActiveOf(a)
               /\ CommittedInInsertionOrder(row.email)
                     => row.active = ActiveOf(LatestClassifiedRow(row.email))

\* two requests for one email were both acknowledged, and the row holds the
\* active value of the audit row inserted first
C18_Witness ==
    /\ Quiescent
    /\ \A r \in Reqs : resp[r].status = 200 /\ resp[r].note = "ok"
    /\ \E row \in subscriptions :
           /\ Cardinality(ClassifiedRowsFor(row.email)) = 2
           /\ row.active # ActiveOf(LatestClassifiedRow(row.email))

(***************************************************************************)
(* C19.  Every upsert that commits finds, already committed, the audit row *)
(* of its own request, with its email and an event that classifies to its  *)
(* active value; so every subscriptions row has such an audit row.         *)
(***************************************************************************)
\* audit row a records email em and an event that classifies to act
Enables(a, em, act) ==
    /\ a.email = JStr(em)
    /\ a.event # None
    /\ Classify(a.event.v) = IF act THEN "activate" ELSE "deactivate"

C19_AuditBeforeState ==
    [][/\ sub_commits' # sub_commits
          => LET c == sub_commits'[Len(sub_commits')]
             IN  /\ \E a \in webhook_events :
                        a.by = c.by /\ Enables(a, c.email, c.active)
                 /\ \A row \in subscriptions' \ subscriptions :
                        row.email = c.email /\ row.active = c.active
       /\ subscriptions' # subscriptions => sub_commits' # sub_commits
       /\ \A row \in subscriptions :
              \E a \in webhook_events : Enables(a, row.email, row.active)]_vars

\* an upsert has committed and the audit row of its request is there
C19_Witness ==
    \E i \in DOMAIN sub_commits :
        /\ \E row \in subscriptions :
               row.email = sub_commits[i].email
        /\ \E a \in AuditRowsBy(sub_commits[i].by) :
               Enables(a, sub_commits[i].email, sub_commits[i].active)

(***************************************************************************)
(* C20.  Every key of subscriptions is non-empty, contains "@", neither    *)
(* starts nor ends with whitespace and has no upper-case letter, and is    *)
(* the form of itself that GET /status looks up.                           *)
(***************************************************************************)
C20_KeysNormalized ==
    \A row \in subscriptions :
        LET e == row.email
        IN  /\ Len(e) > 0
            /\ \E i \in DOMAIN e : e[i] = "@"
            /\ e[1] \notin WhitespaceChars
            /\ e[Len(e)] \notin WhitespaceChars
            /\ \A i \in DOMAIN e : \A n \in DOMAIN UpperChars :
                   e[i] # UpperChars[n]
            /\ Lower(Strip(e)) = e

\* a row is keyed by an email that the payload spelled otherwise
C20_Witness ==
    \E row \in subscriptions : \E a \in webhook_events :
        \E i \in DOMAIN paths :
            /\ Matches(a.raw, paths[i])
            /\ Resolve(a.raw, paths[i]).v # row.email
            /\ LowerCased(Trimmed(Resolve(a.raw, paths[i]).v)) = row.email

=============================================================================
